---- MODULE Spec2Model ----
(***************************************************************************)
(* A model of canvas_utils/modules.py: module items and their creation on  *)
(* a Canvas course, weekly modules named after the Monday of a week,       *)
(* ordinal modules ("First class", ...), SemesterDates, and the two entry  *)
(* points post_module and update_module.                                   *)
(*                                                                         *)
(* The remote course (the `canvas` client library) is the environment: it  *)
(* is modelled as the record `canvas` holding the course's modules, files, *)
(* assignments, assignment groups and announcements.  Names are modelled   *)
(* as the sequence of their whitespace-separated words (what str.split()   *)
(* yields), so "Week of December 16" is <<"Week","of","December","16">>.   *)
(***************************************************************************)
EXTENDS Integers, Sequences, FiniteSets, TLC

VARIABLES
    canvas,   \* the remote course, as seen through the canvas client
    last,     \* the last call made: its arguments, remote calls, output, result
    today,    \* calendar specification: the input date [year, month, day]
    monday,   \*   the Monday of today's week, kept by stepping the calendar
    dow,      \*   today's offset in its week (0 = Monday .. 6 = Sunday)
    ndays     \*   days stepped so far

vars == <<canvas, last, today, monday, dow, ndays>>

\* Python's None and a value that may be None: None is the empty tuple, a
\* present value x is <<x>>.
None == <<>>
Some(x) == <<x>>
Val(opt) == opt[1]

\* ------------------------------------------------------------------ bounds

MaxDays == 420      \* days the calendar specification steps through
MaxWeek == 3        \* semester weeks 1..MaxWeek
MaxItems == 2       \* items of a week-block
MaxWords == 3       \* words of a name handed to get_ordinal_from_name
MaxModules == 3     \* modules listed remotely before an ordinal module is added
MaxFiles == 3       \* entries of the dict handed to upload_files_from_dict
MaxCalls == 3       \* post_module and update_module calls made in a row

\* ---------------------------------------------------- datetime and calendar

\* calendar.month_name: index 0 is the empty string.
month_name == <<"January", "February", "March", "April", "May", "June", "July",
                "August", "September", "October", "November", "December">>

\* list(month_name).index(month)
MonthIndex(month) == CHOOSE i \in 1..12 : month_name[i] = month

IsLeap(y) == (y % 4 = 0) /\ ((y % 100 /= 0) \/ (y % 400 = 0))

DaysInMonth(y, m) ==
    IF m = 2 THEN (IF IsLeap(y) THEN 29 ELSE 28)
    ELSE IF m \in {4, 6, 9, 11} THEN 30 ELSE 31

\* days in the months of year y before month m
RECURSIVE DaysBeforeMonth(_, _)
DaysBeforeMonth(y, m) ==
    IF m = 1 THEN 0 ELSE DaysBeforeMonth(y, m - 1) + DaysInMonth(y, m - 1)

DaysBeforeYear(y) ==
    (y - 1) * 365 + ((y - 1) \div 4) - ((y - 1) \div 100) + ((y - 1) \div 400)

\* datetime.date(year, month, day)
Date(y, m, d) == [year |-> y, month |-> m, day |-> d]

\* date.toordinal(): the proleptic Gregorian ordinal, 0001-01-01 is day 1
ToOrdinal(date) ==
    DaysBeforeYear(date.year) + DaysBeforeMonth(date.year, date.month) + date.day

\* date.fromordinal(n), as datetime computes it from the 400/100/4/1-year cycles
FromOrdinal(n) ==
    LET n0   == n - 1
        n400 == n0 \div 146097
        r400 == n0 % 146097
        n100 == r400 \div 36524
        r100 == r400 % 36524
        n4   == r100 \div 1461
        r4   == r100 % 1461
        n1   == r4 \div 365
        r1   == r4 % 365
        year == n400 * 400 + 1 + n100 * 100 + n4 * 4 + n1
        leap == (n1 = 3) /\ ((n4 /= 24) \/ (n100 = 3))
        est  == (r1 + 50) \div 32
        before(m) == DaysBeforeMonth(year, m)
        month == IF before(est) > r1 THEN est - 1 ELSE est
    IN  IF n1 = 4 \/ n100 = 4
        THEN Date(year - 1, 12, 31)
        ELSE Date(year, month, r1 - before(month) + 1)

\* date.weekday(): Monday is 0
Weekday(date) == (ToOrdinal(date) + 6) % 7

\* date + datetime.timedelta(days)
AddDays(date, days) == FromOrdinal(ToOrdinal(date) + days)

\* date.strftime("%B")
MonthNameOf(date) == month_name[date.month]

\* The calendar itself, stepped one day at a time (the reference the date
\* arithmetic above is compared with).
CalNextDay(date) ==
    IF date.day < DaysInMonth(date.year, date.month)
    THEN Date(date.year, date.month, date.day + 1)
    ELSE IF date.month < 12
         THEN Date(date.year, date.month + 1, 1)
         ELSE Date(date.year + 1, 1, 1)

RECURSIVE CalAddDays(_, _)
CalAddDays(date, n) == IF n = 0 THEN date ELSE CalAddDays(CalNextDay(date), n - 1)

\* date1 <= date2 in calendar order
CalLeq(a, b) ==
    \/ a.year < b.year
    \/ a.year = b.year /\ a.month < b.month
    \/ a.year = b.year /\ a.month = b.month /\ a.day <= b.day

\* Monday 25 December 2023: the first day of the calendar specification.
FirstDay == Date(2023, 12, 25)

\* ------------------------------------------------------------ weekly modules

\* WEEKLY_MODULE_NAME_FORMAT.format(mname, day), as its words
WEEKLY_MODULE_NAME_FORMAT(mname, day) == <<"Week", "of", mname, ToString(day)>>

\* A month argument is a month name or a month number:
\* [str |-> name] or [int |-> number].
MonthStr(name) == [str |-> name]
MonthInt(num) == [int |-> num]

\* isinstance(month, str) ? list(month_name).index(month) : month
MNum(month) ==
    IF "str" \in DOMAIN month THEN MonthIndex(month.str) ELSE month.int

module_name_unnormalized(year, month, day) ==
    WEEKLY_MODULE_NAME_FORMAT(month_name[MNum(month)], day)

module_name(year, month, day) ==
    LET date   == Date(year, MNum(month), day)
        monday_ == AddDays(date, 0 - Weekday(date))
    IN  WEEKLY_MODULE_NAME_FORMAT(month_name[monday_.month], monday_.day)

\* ------------------------------------------------------------ SemesterDates

SemesterDates_init_forward(start_date) ==
    [start_date |-> AddDays(start_date, Weekday(start_date))]

\* SemesterDates.__init__ (default_due_time plays no part in the week dates)
SemesterDates_init(start_date) ==
    [start_date |-> AddDays(start_date, 0 - Weekday(start_date))]

\* SemesterDates.week_start
week_start(self, week) == AddDays(self.start_date, 7 * (week - 1))

\* The date arguments post_module and update_module derive for a week.
WeekArgs(semester_dates, week) ==
    LET start_date == week_start(semester_dates, week)
    IN  [year  |-> start_date.year,
         month |-> MonthStr(MonthNameOf(start_date)),
         day   |-> start_date.day]

\* create_weekly_module's assertion: date.weekday() == 0
IsMondayArgs(year, month, day) == Weekday(Date(year, MNum(month), day)) = 0

\* --------------------------------------------------- calendar specification

NoCall == [op |-> "none"]

EmptyCourse ==
    [modules |-> <<>>, files |-> <<>>, assignments |-> <<>>,
     groups |-> <<>>, announcements |-> <<>>, next_id |-> 1]

InitDate ==
    /\ today = FirstDay
    /\ monday = FirstDay
    /\ dow = 0
    /\ ndays = 0
    /\ last = NoCall
    /\ canvas = EmptyCourse

\* The environment: the next day begins.
NextDay ==
    /\ ndays < MaxDays
    /\ today' = CalNextDay(today)
    /\ dow' = (dow + 1) % 7
    /\ monday' = IF dow = 6 THEN CalNextDay(today) ELSE monday
    /\ ndays' = ndays + 1
    /\ last' = NoCall
    /\ UNCHANGED canvas

\* module_name(today), the month given by name or by number
CallModuleName ==
    /\ \E month \in {MonthStr(month_name[today.month]), MonthInt(today.month)} :
          last' = [op     |-> "module_name",
                   month  |-> month,
                   result |-> module_name(today.year, month, today.day)]
    /\ UNCHANGED <<canvas, today, monday, dow, ndays>>

\* SemesterDates(today), then the dates post_module derives for a week and
\* the assertion create_weekly_module makes on them.
CallWeekStart ==
    /\ \E week \in 1..MaxWeek :
          LET sd   == SemesterDates_init(today)
              args == WeekArgs(sd, week)
          IN  last' = [op         |-> "week_start",
                       start_date |-> sd.start_date,
                       week       |-> week,
                       result     |-> week_start(sd, week),
                       args       |-> args,
                       is_monday  |-> IsMondayArgs(args.year, args.month, args.day)]
    /\ UNCHANGED <<canvas, today, monday, dow, ndays>>

NextDate == NextDay \/ CallModuleName \/ CallWeekStart

SpecDate == InitDate /\ [][NextDate]_vars

\* C9: on every day of a week, Monday to Sunday, module_name returns the name
\* built from the month and the day of the month of that week's Monday, so the
\* seven days of a week give the same string, also when the Monday lies in the
\* previous month or year.
C9_SameNameAllWeek ==
    last.op = "module_name" =>
        last.result = <<"Week", "of", month_name[monday.month], ToString(monday.day)>>

C9_Witness ==
    /\ last.op = "module_name"
    /\ dow = 6
    /\ monday.year < today.year
    /\ last.result = <<"Week", "of", "December", "30">>

\* C10: SemesterDates stores the Monday of the input date's week (never a
\* later date), week_start(1) is that date, week_start(w) is the Monday
\* 7*(w-1) days after it, and create_weekly_module's Monday assertion holds
\* on the dates post_module derives from it.
C10_MondayStart ==
    last.op = "week_start" =>
        /\ last.start_date = monday
        /\ CalLeq(last.start_date, today)
        /\ (last.week = 1 => last.result = last.start_date)
        /\ last.result = CalAddDays(monday, 7 * (last.week - 1))
        /\ last.is_monday

C10_Witness ==
    /\ last.op = "week_start"
    /\ dow = 4
    /\ last.week = 3
    /\ last.start_date.month /= last.result.month
    /\ last.is_monday

\* ------------------------------------------------------------ the remote API

\* A search term matches a name that contains it.  Names are word sequences;
\* the term's last word may be cut short inside a word of the name, which in
\* the names used here happens for day numbers ("1" begins "16").
DayWords == {ToString(d) : d \in 1..31}
DayOf(w) == CHOOSE d \in 1..31 : ToString(d) = w

WordPrefix(a, b) ==
    \/ a = b
    \/ /\ a \in DayWords
       /\ b \in DayWords
       /\ DayOf(b) \div 10 = DayOf(a)

Contains(name, term) ==
    \/ term = <<>>
    \/ \E off \in 0..(Len(name) - Len(term)) :
          /\ \A i \in 1..(Len(term) - 1) : name[off + i] = term[i]
          /\ WordPrefix(term[Len(term)], name[off + Len(term)])

\* canvas.list_modules(classid) and canvas.list_modules(classid, search=name)
list_modules(c, search) ==
    IF search = None THEN c.modules
    ELSE SelectSeq(c.modules, LAMBDA m : Contains(m.name, search))

\* canvas.create_module(classid, name, None): position None places the module
\* at the end.  The response carries the new module's id; a request the
\* server refuses answers with an error body that has no id and adds nothing.
create_module_resp(c, ok) ==
    IF ok THEN [id |-> c.next_id] ELSE [errors |-> "refused"]

create_module_effect(c, name, ok) ==
    IF ok
    THEN [c EXCEPT !.modules = Append(@, [id |-> c.next_id, name |-> name, items |-> <<>>]),
                   !.next_id = @ + 1]
    ELSE c

\* ----------------------------------------------------------- ordinal modules

UnitOrdinals == <<"first", "second", "third", "fourth", "fifth",
                  "sixth", "seventh", "eighth", "ninth">>

CapUnitOrdinals == <<"First", "Second", "Third", "Fourth", "Fifth",
                     "Sixth", "Seventh", "Eighth", "Ninth">>

\* The tokens number_parser makes of one whitespace-separated word: lower
\* case, split at the hyphen.
WordTokens(w) ==
    IF \E i \in 1..9 : w \in {UnitOrdinals[i], CapUnitOrdinals[i]}
    THEN <<UnitOrdinals[CHOOSE i \in 1..9 : w \in {UnitOrdinals[i], CapUnitOrdinals[i]}]>>
    ELSE IF w \in {"tenth", "Tenth"} THEN <<"tenth">>
    ELSE IF w \in {"twenty", "Twenty"} THEN <<"twenty">>
    ELSE IF w \in {"twentieth", "Twentieth"} THEN <<"twentieth">>
    ELSE IF \E i \in 1..9 : w \in {"twenty-" \o UnitOrdinals[i], "Twenty-" \o UnitOrdinals[i]}
    THEN <<"twenty", UnitOrdinals[CHOOSE i \in 1..9 :
                 w \in {"twenty-" \o UnitOrdinals[i], "Twenty-" \o UnitOrdinals[i]}]>>
    ELSE <<w>>

RECURSIVE Tokens(_)
Tokens(words) ==
    IF words = <<>> THEN <<>> ELSE WordTokens(Head(words)) \o Tokens(Tail(words))

UnitValue(tok) == CHOOSE i \in 1..9 : UnitOrdinals[i] = tok
IsUnit(tok) == \E i \in 1..9 : UnitOrdinals[i] = tok

\* number_parser.parse_ordinal(" ".join(words)): Some(number), if the words
\* are one number in words (or one numeral), and None otherwise.
parse_ordinal(words) ==
    LET toks == Tokens(words)
    IN  IF Len(toks) = 1 /\ IsUnit(toks[1]) THEN Some(UnitValue(toks[1]))
        ELSE IF toks = <<"tenth">> THEN Some(10)
        ELSE IF toks \in {<<"twenty">>, <<"twentieth">>} THEN Some(20)
        ELSE IF Len(toks) = 2 /\ toks[1] = "twenty" /\ IsUnit(toks[2])
        THEN Some(20 + UnitValue(toks[2]))
        ELSE IF Len(toks) = 1 /\ toks[1] \in DayWords THEN Some(DayOf(toks[1]))
        ELSE None

drop_first_iter(lst) ==
    [i \in 1..Len(lst) |-> SubSeq(lst, i, Len(lst))]

\* drop_last_iter: the lists the generator yields, in order
drop_last_iter(lst) ==
    [i \in 1..Len(lst) |-> SubSeq(lst, 1, Len(lst) - i + 1)]

\* The for loop of get_ordinal_from_name over the lists yielded from the i-th
\* on: the sublists it has taken from the generator and what it returns.
RECURSIVE OrdinalLoop(_, _)
OrdinalLoop(sublists, i) ==
    IF i > Len(sublists)
    THEN [tried |-> sublists, result |-> None]
    ELSE LET parsed == parse_ordinal(sublists[i])
         IN  IF parsed /= None
             THEN [tried |-> SubSeq(sublists, 1, i), result |-> parsed]
             ELSE OrdinalLoop(sublists, i + 1)

\* get_ordinal_from_name(name), name given as name.split()
get_ordinal_from_name(words) == OrdinalLoop(drop_last_iter(words), 1).result

SeqMax(s) == CHOOSE n \in {s[i] : i \in DOMAIN s} : \A i \in DOMAIN s : s[i] <= n
SeqMin(s) == CHOOSE n \in {s[i] : i \in DOMAIN s} : \A i \in DOMAIN s : n <= s[i]

OrdinalNumbers(mlist) ==
    LET all == [i \in DOMAIN mlist |-> get_ordinal_from_name(mlist[i].name)]
        kept == SelectSeq(all, LAMBDA n : n /= None)
    IN  [i \in DOMAIN kept |-> Val(kept[i])]

get_first_ordinal_module_number(c) ==
    LET numbers == OrdinalNumbers(list_modules(c, None))
    IN  IF numbers /= <<>> THEN SeqMin(numbers) ELSE 0

\* get_last_ordinal_module_number
get_last_ordinal_module_number(c) ==
    LET numbers == OrdinalNumbers(list_modules(c, None))
    IN  IF numbers /= <<>> THEN SeqMax(numbers) ELSE 0

\* num2words(number, "ordinal").capitalize()
Num2WordsOrdinalCap(number) ==
    IF number \in 1..9 THEN CapUnitOrdinals[number]
    ELSE IF number = 10 THEN "Tenth"
    ELSE IF number = 20 THEN "Twentieth"
    ELSE "Twenty-" \o UnitOrdinals[number - 20]

\* ordinal_module_name
ordinal_module_name(number, suffix) == <<Num2WordsOrdinalCap(number), suffix>>

\* The key create_next_ordinal_module looks up in the response: `id`, the
\* built-in function, where create_weekly_module looks up the string 'id'.
BuiltinId == "<built-in function id>"

create_weekly_module_if_absent(c, year, month, day, ok) ==
    LET name  == WEEKLY_MODULE_NAME_FORMAT(month_name[MNum(month)], day)
        found == list_modules(c, name)
        resp  == create_module_resp(c, ok)
    IN  IF found /= <<>>
        THEN [canvas |-> c,
              calls  |-> <<[api |-> "list_modules", search |-> name]>>,
              resp   |-> [id |-> found[1].id],
              result |-> Some(found[1].id)]
        ELSE [canvas |-> create_module_effect(c, name, ok),
              calls  |-> <<[api |-> "list_modules", search |-> name],
                           [api |-> "create_module", name |-> name, position |-> None]>>,
              resp   |-> resp,
              result |-> IF "id" \in DOMAIN resp THEN Some(resp.id) ELSE None]

\* create_weekly_module, after its date assertion: the remote call it makes,
\* the course afterwards, and what it returns.  `ok` is whether the server
\* accepts the create_module request.
create_weekly_module(c, year, month, day, ok) ==
    LET mname == month_name[MNum(month)]
        name  == WEEKLY_MODULE_NAME_FORMAT(mname, day)
        resp  == create_module_resp(c, ok)
    IN  [canvas |-> create_module_effect(c, name, ok),
         calls  |-> <<[api |-> "create_module", name |-> name, position |-> None]>>,
         resp   |-> resp,
         result |-> IF "id" \in DOMAIN resp THEN Some(resp.id) ELSE None]

\* create_next_ordinal_module
create_next_ordinal_module(c, suffix, ok) ==
    LET lastmod == get_last_ordinal_module_number(c)
        name    == ordinal_module_name(lastmod + 1, suffix)
        resp    == create_module_resp(c, ok)
    IN  [canvas |-> create_module_effect(c, name, ok),
         calls  |-> <<[api |-> "list_modules", search |-> None],
                      [api |-> "create_module", name |-> name, position |-> None]>>,
         number |-> lastmod + 1,
         resp   |-> resp,
         result |-> IF BuiltinId \in DOMAIN resp THEN Some(resp.id) ELSE None]

\* All sequences over S of length at most n.
SeqsUpTo(S, n) == UNION {[1..k -> S] : k \in 0..n}

IdleDate ==
    /\ today = FirstDay
    /\ monday = FirstDay
    /\ dow = 0
    /\ ndays = 0

\* ------------------------------------------ get_ordinal_from_name on its own

NameWords == {"First", "second", "Twenty", "Twenty-first", "class", "review", "16"}

\* The name to parse is drawn at the start.
InitName ==
    /\ IdleDate
    /\ canvas = EmptyCourse
    /\ \E words \in SeqsUpTo(NameWords, MaxWords) :
          last = [op |-> "name", words |-> words]

CallGetOrdinalFromName ==
    /\ last.op = "name"
    /\ LET run == OrdinalLoop(drop_last_iter(last.words), 1)
       IN  last' = [op     |-> "get_ordinal_from_name",
                    words  |-> last.words,
                    tried  |-> run.tried,
                    result |-> run.result]
    /\ UNCHANGED <<canvas, today, monday, dow, ndays>>

NextName == CallGetOrdinalFromName

SpecName == InitName /\ [][NextName]_vars

\* The lengths of the non-empty prefixes of a name that parse as an ordinal.
ParsingPrefixes(words) ==
    {k \in 1..Len(words) : parse_ordinal(SubSeq(words, 1, k)) /= None}

SetMax(S) == CHOOSE n \in S : \A m \in S : m <= n

\* The parse of the longest prefix of a name that parses, None if none does.
LeadingOrdinal(words) ==
    IF ParsingPrefixes(words) = {} THEN None
    ELSE parse_ordinal(SubSeq(words, 1, SetMax(ParsingPrefixes(words))))

\* C8: get_ordinal_from_name tries the word-prefixes of the name from the full
\* name downwards, each once and each one word shorter than the one before,
\* down to the first word alone unless one parses; it returns the parse of the
\* longest prefix that parses, and None exactly when no non-empty prefix
\* parses (the empty name included).
C8_LongestPrefixParse ==
    last.op = "get_ordinal_from_name" =>
        LET w == last.words
            P == ParsingPrefixes(w)
        IN  /\ \A i \in DOMAIN last.tried :
                   last.tried[i] = SubSeq(w, 1, Len(w) - i + 1)
            /\ Len(last.tried) = IF P = {} THEN Len(w) ELSE Len(w) - SetMax(P) + 1
            /\ last.result = LeadingOrdinal(w)
            /\ (last.result = None <=> P = {})

\* "Twenty-first class review": two prefixes fail, the third gives 21.
C8_Witness ==
    /\ last.op = "get_ordinal_from_name"
    /\ last.words = <<"Twenty", "First", "class">>
    /\ last.tried = <<<<"Twenty", "First", "class">>, <<"Twenty", "First">>>>
    /\ last.result = Some(21)

\* ------------------------------------------------- the ordinal-module course

ModuleNames ==
    {<<"First", "class">>, <<"Second", "class">>, <<"Syllabus">>,
     <<"Third", "class", "review">>, <<"Twenty", "first", "lecture">>,
     <<"Week", "of", "December", "16">>}

\* A course that lists modules with the given names, ids 1, 2, ...
CourseWithModules(names) ==
    [EmptyCourse EXCEPT
        !.modules = [i \in DOMAIN names |-> [id |-> i, name |-> names[i], items |-> <<>>]],
        !.next_id = Len(names) + 1]

InitOrd ==
    /\ IdleDate
    /\ \E names \in SeqsUpTo(ModuleNames, MaxModules) :
          canvas = CourseWithModules(names)
    /\ last = NoCall

CallCreateNextOrdinalModule ==
    /\ Len(canvas.modules) <= MaxModules
    /\ \E suffix \in {"class", "lecture"}, ok \in BOOLEAN :
          LET r == create_next_ordinal_module(canvas, suffix, ok)
          IN  /\ canvas' = r.canvas
              /\ last' = [op     |-> "create_next_ordinal_module",
                          suffix |-> suffix,
                          listed |-> canvas.modules,
                          number |-> r.number,
                          calls  |-> r.calls,
                          resp   |-> r.resp,
                          result |-> r.result]
    /\ UNCHANGED <<today, monday, dow, ndays>>

NextOrd == CallCreateNextOrdinalModule

SpecOrd == InitOrd /\ [][NextOrd]_vars

\* The ordinals that lead the names of the listed modules.
ListedOrdinals(mlist) ==
    {Val(LeadingOrdinal(mlist[i].name)) :
        i \in {j \in DOMAIN mlist : LeadingOrdinal(mlist[j].name) /= None}}

CreateModuleCalls(calls) == SelectSeq(calls, LAMBDA c : c.api = "create_module")

\* C6: the next ordinal module gets the number one more than the greatest
\* ordinal that leads the name of a module listed remotely, 1 if no name has
\* one; names without an ordinal are ignored; create_next_ordinal_module makes
\* exactly one create_module request, for a module named with that number.
C6_NextOrdinalNumber ==
    last.op = "create_next_ordinal_module" =>
        LET nums     == ListedOrdinals(last.listed)
            expected == IF nums = {} THEN 1 ELSE SetMax(nums) + 1
            creates  == CreateModuleCalls(last.calls)
        IN  /\ last.number = expected
            /\ Len(creates) = 1
            /\ Len(creates[1].name) = 2
            /\ creates[1].name[2] = last.suffix
            /\ parse_ordinal(<<creates[1].name[1]>>) = Some(expected)

C6_Witness ==
    /\ last.op = "create_next_ordinal_module"
    /\ [i \in DOMAIN last.listed |-> last.listed[i].name]
          = <<<<"First", "class">>, <<"Second", "class">>, <<"Syllabus">>>>
    /\ last.number = 3
    /\ CreateModuleCalls(last.calls)[1].name = <<"Third", "class">>

\* C7: create_next_ordinal_module returns the id of the module it created
\* whenever the create_module response carries an 'id', and None only when
\* the response has none.
C7_ReturnsCreatedId ==
    last.op = "create_next_ordinal_module" =>
        last.result = IF "id" \in DOMAIN last.resp THEN Some(last.resp.id) ELSE None

\* -------------------------------------------------- more of the remote API

\* A run of a call: the course, the remote requests made so far, the lines
\* printed so far, and the item.create invocations made so far.
Run0(c) == [canvas |-> c, calls |-> <<>>, out |-> <<>>, invoked |-> <<>>]

Request(r, call) == [r EXCEPT !.calls = Append(@, call)]
PrintLine(r, line) == [r EXCEPT !.out = Append(@, line)]

HasModule(c, module) ==
    module /= None /\ \E i \in DOMAIN c.modules : c.modules[i].id = Val(module)

\* canvas.create_module_item(course, module, title, None, type, indent=...,
\* **kwargs): with position None the item goes to the end of the module; a
\* module the course does not have gets nothing.  kwargs is the record of the
\* remaining keyword arguments (content, or external_url and new_tab).
NoKwargs == [none |-> TRUE]

create_module_item(r, module, title, type, indent, kwargs) ==
    LET call == [api |-> "create_module_item", module |-> module, title |-> title,
                 position |-> None, type |-> type, indent |-> indent,
                 kwargs |-> kwargs]
        item == [title |-> title, type |-> type, indent |-> indent, kwargs |-> kwargs]
        c    == r.canvas
    IN  Request(
          IF HasModule(c, module)
          THEN [r EXCEPT !.canvas.modules =
                   [i \in DOMAIN c.modules |->
                       IF c.modules[i].id = Val(module)
                       THEN [c.modules[i] EXCEPT !.items = Append(@, item)]
                       ELSE c.modules[i]]]
          ELSE r,
          call)

\* canvas.list_files(course, fname): the course's files of that name
list_files(c, fname) == SelectSeq(c.files, LAMBDA f : f.name = fname)

\* canvas.get_assignments(course, name): the course's assignments of that name
get_assignments(c, name) == SelectSeq(c.assignments, LAMBDA a : a.name = name)

\* canvas.upload_file_to_course: the course gets the file; its id is in the
\* response under 'upload'.
upload_file_to_course(r, local_file, remote_path, remote_name) ==
    LET c    == r.canvas
        name == IF remote_name = None THEN local_file ELSE Val(remote_name)
    IN  Request(
          [r EXCEPT !.canvas.files = Append(@, [id |-> c.next_id, name |-> name]),
                    !.canvas.next_id = @ + 1],
          [api |-> "upload_file_to_course", local_file |-> local_file,
           remote_path |-> remote_path, remote_name |-> remote_name])

\* canvas.create_assignment: the course gets the assignment; the response
\* carries its id.
create_assignment(r, name, groupid, submission_types, ext_tool_url) ==
    LET c == r.canvas
    IN  Request(
          [r EXCEPT !.canvas.assignments = Append(@, [id |-> c.next_id, name |-> name]),
                    !.canvas.next_id = @ + 1],
          [api |-> "create_assignment", name |-> name, group |-> groupid,
           submission_types |-> submission_types, ext_tool_url |-> ext_tool_url])

\* canvas.post_announcement_from_markdown
post_announcement_from_markdown(r, title, body) ==
    Request(
      [r EXCEPT !.canvas.announcements = Append(@, [title |-> title, body |-> body])],
      [api |-> "post_announcement_from_markdown", title |-> title])

\* -------------------------------------------------------------- module items

ItemHeader(title, indent) ==
    [kind |-> "ItemHeader", title |-> title, indent |-> indent]

ItemFile(title, fname, indent) ==
    [kind |-> "ItemFile", title |-> title, indent |-> indent, fname |-> fname]

ItemLocalFile(title, local_file, remote_path, remote_name, indent) ==
    [kind |-> "ItemLocalFile", title |-> title, indent |-> indent,
     local_file |-> local_file, remote_path |-> remote_path,
     remote_name |-> remote_name]

ItemAssignment(title, name, indent) ==
    [kind |-> "ItemAssignment", title |-> title, indent |-> indent,
     name |-> IF name = None THEN title ELSE Val(name)]

\* The keyword arguments left at their defaults here: submission_types,
\* allowed_extensions, peer_reviews, auto_peer_reviews, ext_tool_url,
\* ext_tool_new_tab.
ItemAssignmentCreate(title, name, markdown_description, points, due_at, group, announcement, indent) ==
    [kind |-> "ItemAssignmentCreate", title |-> title, indent |-> indent,
     name |-> IF name = None THEN title ELSE Val(name),
     markdown_description |-> markdown_description,
     points |-> points, due_at |-> due_at, group |-> group,
     submission_types |-> "on_paper", allowed_extensions |-> None,
     peer_reviews |-> FALSE, auto_peer_reviews |-> FALSE,
     ext_tool_url |-> None, ext_tool_new_tab |-> TRUE,
     announcement |-> IF announcement = Some("description")
                      THEN Some(markdown_description) ELSE announcement]

\* wwset.replace("_", " ") for the set names used here
UnderscoresToSpaces(wwset) == IF wwset = "Set_1" THEN "Set 1" ELSE wwset

ItemWebworkSet(title, wwclass, wwset, points, deadline, group, name, announcement, indent) ==
    [kind |-> "ItemWebworkSet", title |-> title, indent |-> indent,
     wwclass |-> wwclass, wwset |-> wwset, points |-> points,
     deadline |-> deadline, group |-> group, announcement |-> announcement,
     name |-> IF name = None THEN UnderscoresToSpaces(wwset) ELSE Val(name)]

ItemURL(title, url, indent, new_tab) ==
    [kind |-> "ItemURL", title |-> title, indent |-> indent,
     url |-> url, new_tab |-> new_tab]

ItemUtoob(title, movieid, indent) ==
    ItemURL(title, "https://youtu.be/" \o movieid, indent, TRUE)

ItemTool(title, url, indent, new_tab) ==
    [kind |-> "ItemTool", title |-> title, indent |-> indent,
     url |-> url, new_tab |-> new_tab]

\* str() of a value that may be None, and of a truth value
StrOpt(opt) == IF opt = None THEN "None" ELSE Val(opt)
StrBool(b) == IF b THEN "True" ELSE "False"

\* __lines__ of each item class
Lines(item) ==
    CASE item.kind = "ItemHeader" -> <<item.title>>
      [] item.kind = "ItemFile" -> <<"File:", item.title, item.fname>>
      [] item.kind = "ItemLocalFile" ->
            <<"File upload:", item.title, item.local_file, item.remote_path,
              StrOpt(item.remote_name)>>
      [] item.kind = "ItemAssignment" -> <<"Assignment:", item.title, item.name>>
      [] item.kind = "ItemAssignmentCreate" ->
            <<"Create assignment:", item.title, item.name, item.markdown_description,
              "Points: " \o ToString(item.points), "Due: " \o StrOpt(item.due_at),
              "Group: " \o StrOpt(item.group),
              "Submissions: " \o item.submission_types,
              "Extensions: " \o StrOpt(item.allowed_extensions),
              "Peer reviews: " \o StrBool(item.peer_reviews),
              "Auto PR: " \o StrBool(item.auto_peer_reviews),
              "External tool: " \o StrOpt(item.ext_tool_url),
              "New tab: " \o StrBool(item.ext_tool_new_tab),
              "Announcement: " \o StrOpt(item.announcement)>>
      [] item.kind = "ItemWebworkSet" ->
            <<"WeBWorK assignment:", item.title, item.name,
              "Points: " \o ToString(item.points), "Due: " \o StrOpt(item.deadline),
              "Group: " \o StrOpt(item.group),
              "Announcement: " \o StrOpt(item.announcement)>>
      [] item.kind = "ItemURL" ->
            <<"URL:", item.title, "URL: " \o item.url,
              "New tab: " \o StrBool(item.new_tab)>>
      [] item.kind = "ItemTool" ->
            <<"Tool:", item.title, "URL: " \o item.url,
              "New tab: " \o StrBool(item.new_tab)>>

\* ModuleItem.__str__: every line behind the indent; what print(item) prints
Str(item) == [indent |-> item.indent, lines |-> Lines(item)]

TextLine(text) == [print |-> "text", text |-> text]
ItemLine(item) == [print |-> "item", str |-> Str(item)]

\* ModuleItem.create of each item class: the run after item.create(course, module)

ItemHeader_create(item, r, module) ==
    create_module_item(r, module, item.title, "SubHeader", item.indent, NoKwargs)

ItemFile_create_last(item, r, module) ==
    LET resp == list_files(r.canvas, item.fname)
        r1   == Request(r, [api |-> "list_files", search |-> item.fname])
    IN  IF resp = <<>>
        THEN PrintLine(r1, TextLine("Creating file item: file ain't there!"))
        ELSE create_module_item(r1, module, item.title, "File", item.indent,
                                [content |-> resp[Len(resp)].id])

ItemFile_create(item, r, module) ==
    LET resp == list_files(r.canvas, item.fname)
        r1   == Request(r, [api |-> "list_files", search |-> item.fname])
    IN  IF resp = <<>>
        THEN PrintLine(r1, TextLine("Creating file item: file ain't there!"))
        ELSE create_module_item(r1, module, item.title, "File", item.indent,
                                [content |-> resp[1].id])

ItemLocalFile_create(item, r, module) ==
    LET fileid == r.canvas.next_id    \* resp['upload']['id']
        r1     == upload_file_to_course(r, item.local_file, item.remote_path,
                                        item.remote_name)
    IN  create_module_item(r1, module, item.title, "File", item.indent,
                           [content |-> fileid])

ItemAssignment_create(item, r, module) ==
    LET resp == get_assignments(r.canvas, item.name)
        r1   == Request(r, [api |-> "get_assignments", search |-> item.name])
    IN  IF resp = <<>>
        THEN PrintLine(r1, TextLine("Creating assignment item: assignment ain't there!"))
        ELSE create_module_item(r1, module, item.title, "Assignment", item.indent,
                                [content |-> resp[1].id])

\* groupid: the first group's id, or the id of the first group named `group`
GroupId(groups, group) ==
    LET named == SelectSeq(groups, LAMBDA g : group /= None /\ g.name = Val(group))
    IN  IF named /= <<>> THEN named[1].id ELSE groups[1].id

\* The announcement both assignment-creating items post when they have one.
Announce(item, r, due) ==
    IF item.announcement /= None
    THEN post_announcement_from_markdown(
             r, "Assignment " \o item.name \o " posted",
             Val(item.announcement) \o "\n\n__Due " \o Val(due) \o "__")
    ELSE r

ItemAssignmentCreate_create(item, r, module) ==
    LET r1      == Request(r, [api |-> "get_assignment_groups"])
        groupid == GroupId(r.canvas.groups, item.group)
        assid   == r1.canvas.next_id    \* resp['id']
        r2      == create_assignment(r1, item.name, groupid, item.submission_types,
                                     item.ext_tool_url)
        r3      == create_module_item(r2, module, item.title, "Assignment",
                                      item.indent, [content |-> assid])
    IN  Announce(item, r3, item.due_at)

WWURL(wwclass, wwset) == "https://webwork.svsu.edu/webwork2/" \o wwclass \o "/" \o wwset

ItemWebworkSet_create(item, r, module) ==
    LET url     == WWURL(item.wwclass, item.wwset)
        r1      == Request(r, [api |-> "get_assignment_groups"])
        groupid == GroupId(r.canvas.groups, item.group)
        assid   == r1.canvas.next_id    \* ass["id"]
        r2      == create_assignment(r1, item.name, groupid, "external_tool", Some(url))
        r3      == create_module_item(r2, module, item.title, "Assignment",
                                      item.indent, [content |-> assid])
    IN  Announce(item, r3, item.deadline)

ItemURL_create(item, r, module) ==
    create_module_item(r, module, item.title, "ExternalUrl", item.indent,
                       [external_url |-> item.url, new_tab |-> item.new_tab])

ItemTool_create(item, r, module) ==
    create_module_item(r, module, item.title, "ExternalTool", item.indent,
                       [external_url |-> item.url, new_tab |-> item.new_tab])

\* item.create(cls, modid), dispatched on the item's class
Create(item, r, module) ==
    CASE item.kind = "ItemHeader" -> ItemHeader_create(item, r, module)
      [] item.kind = "ItemFile" -> ItemFile_create(item, r, module)
      [] item.kind = "ItemLocalFile" -> ItemLocalFile_create(item, r, module)
      [] item.kind = "ItemAssignment" -> ItemAssignment_create(item, r, module)
      [] item.kind = "ItemAssignmentCreate" -> ItemAssignmentCreate_create(item, r, module)
      [] item.kind = "ItemWebworkSet" -> ItemWebworkSet_create(item, r, module)
      [] item.kind = "ItemURL" -> ItemURL_create(item, r, module)
      [] item.kind = "ItemTool" -> ItemTool_create(item, r, module)

Invoke(item, r, module) ==
    Create(item, [r EXCEPT !.invoked = Append(@, [item |-> item, module |-> module])],
           module)

\* for item in mod['items']: print(item) if print_only else item.create(cls, modid)
RECURSIVE ForItemsBackwards(_, _, _, _, _)
ForItemsBackwards(items, i, r, print_only, modid) ==
    IF i > Len(items) THEN r
    ELSE LET item == items[Len(items) - i + 1]
         IN  ForItemsBackwards(items, i + 1,
                      IF print_only THEN PrintLine(r, ItemLine(item))
                      ELSE Invoke(item, r, modid),
                      print_only, modid)

RECURSIVE ForItems(_, _, _, _, _)
ForItems(items, i, r, print_only, modid) ==
    IF i > Len(items) THEN r
    ELSE ForItems(items, i + 1,
                  IF print_only THEN PrintLine(r, ItemLine(items[i]))
                  ELSE Invoke(items[i], r, modid),
                  print_only, modid)

get_module_id_last(c, name) ==
    LET mlist == list_modules(c, name)
    IN  IF mlist /= <<>> THEN Some(mlist[Len(mlist)].id) ELSE None

\* get_module_id(classid, name): the id of the first module the search lists
get_module_id(c, name) ==
    LET mlist == list_modules(c, name)
    IN  IF mlist /= <<>> THEN Some(mlist[1].id) ELSE None

PostHeader(args) ==
    TextLine("==================== Module for " \o args.month.str \o "/"
             \o ToString(args.day) \o "/" \o ToString(args.year)
             \o " ====================")

UpdateHeader(args) ==
    TextLine("Module for " \o args.month.str \o "/" \o ToString(args.day) \o "/"
             \o ToString(args.year))

post_module_always_creates(c, mod, semester_dates, print_only, ok) ==
    LET args == WeekArgs(semester_dates, mod.week)
        cw   == create_weekly_module(c, args.year, args.month, args.day, ok)
        r1   == [Run0(cw.canvas) EXCEPT !.calls = cw.calls]
    IN  [run   |-> ForItems(mod.items, 1,
                            IF print_only THEN PrintLine(r1, PostHeader(args)) ELSE r1,
                            print_only, cw.result),
         modid |-> cw.result, raised |-> None]

\* post_module: the run, the module id it got, and the exception that ended
\* it, if one did.
post_module(c, mod, semester_dates, print_only, ok) ==
    LET args == WeekArgs(semester_dates, mod.week)
        cw   == create_weekly_module(c, args.year, args.month, args.day, ok)
    IN  IF print_only
        THEN [run   |-> ForItems(mod.items, 1, PrintLine(Run0(c), PostHeader(args)),
                                 print_only, None),
              modid |-> None, raised |-> None]
        ELSE IF ~IsMondayArgs(args.year, args.month, args.day)
        THEN [run |-> Run0(c), modid |-> None, raised |-> Some("AssertionError")]
        ELSE [run   |-> ForItems(mod.items, 1,
                                 [Run0(cw.canvas) EXCEPT !.calls = cw.calls],
                                 print_only, cw.result),
              modid |-> cw.result, raised |-> None]

update_module_always_creates(c, mod, semester_dates, print_only) ==
    LET args  == WeekArgs(semester_dates, mod.week)
        name  == module_name(args.year, args.month, args.day)
        r0    == IF print_only THEN PrintLine(Run0(c), UpdateHeader(args)) ELSE Run0(c)
        r1    == Request(r0, [api |-> "list_modules", search |-> name])
        modid == get_module_id(c, name)
    IN  [run   |-> IF modid = None
                   THEN PrintLine(r1, TextLine("Could not find the module"))
                   ELSE ForItems(mod.items, 1, r1, FALSE, modid),
         modid |-> modid, raised |-> None]

\* update_module
update_module(c, mod, semester_dates, print_only) ==
    LET args  == WeekArgs(semester_dates, mod.week)
        name  == module_name(args.year, args.month, args.day)
        r0    == IF print_only THEN PrintLine(Run0(c), UpdateHeader(args)) ELSE Run0(c)
        r1    == Request(r0, [api |-> "list_modules", search |-> name])
        modid == get_module_id(c, name)
    IN  [run   |-> IF modid = None
                   THEN PrintLine(r1, TextLine("Could not find the module"))
                   ELSE ForItems(mod.items, 1, r1, print_only, modid),
         modid |-> modid, raised |-> None]

\* ------------------------------------------------ posting a week's module

\* The semester: SemesterDates built from Wednesday 18 December 2024, so that
\* its weeks begin on 16, 23 and 30 December 2024 and 6 January 2025.
Semester == SemesterDates_init(Date(2024, 12, 18))

Due == Some("2024-12-20T23:59:00")

\* The items a week-block is made of.
ItemChoices ==
    {ItemHeader("Intro", 0),
     ItemFile("Notes", "notes.pdf", 1),
     ItemLocalFile("Slides", "slides.pdf", "week1", None, 1),
     ItemAssignment("HW", None, 1),
     ItemAssignmentCreate("Quiz", None, "description", 10, None, None, None, 1),
     ItemAssignmentCreate("Essay", Some("Essay 1"), "description", 20, Due,
                          Some("Quizzes"), Some("description"), 1),
     ItemWebworkSet("WW", "math101", "Set_1", 5, Due, None, None, Some("WW is up"), 1),
     ItemURL("Link", "https://example.org", 1, FALSE),
     ItemUtoob("Movie", "abc", 1),
     ItemTool("Tool", "https://tool.example.org", 1, TRUE)}

\* The remote files called notes.pdf and assignments called HW: none, one, two.
FileChoices ==
    {<<>>,
     <<[id |-> 10, name |-> "notes.pdf"]>>,
     <<[id |-> 10, name |-> "notes.pdf"], [id |-> 11, name |-> "notes.pdf"]>>}

AssignmentChoices ==
    {<<>>,
     <<[id |-> 20, name |-> "HW"]>>,
     <<[id |-> 20, name |-> "HW"], [id |-> 21, name |-> "HW"]>>}

\* The remote modules: none, or two that carry the name of week 1.
ModuleChoices ==
    {<<>>,
     <<[id |-> 1, name |-> <<"Week", "of", "December", "16">>,
        items |-> <<[title |-> "Old", type |-> "SubHeader", indent |-> 0,
                     kwargs |-> NoKwargs]>>],
       [id |-> 2, name |-> <<"Week", "of", "December", "16">>, items |-> <<>>]>>}

Init ==
    /\ IdleDate
    /\ last = NoCall
    /\ \E fs \in FileChoices, as \in AssignmentChoices, ms \in ModuleChoices :
          canvas = [modules |-> ms, files |-> fs, assignments |-> as,
                    groups |-> <<[id |-> 30, name |-> "Assignments"],
                                 [id |-> 31, name |-> "Quizzes"]>>,
                    announcements |-> <<>>,
                    next_id |-> 100]

Mods == [week : 1..MaxWeek, items : SeqsUpTo(ItemChoices, MaxItems)]

CallRecord(op, mod, print_only, res) ==
    [op |-> op, week |-> mod.week, items |-> mod.items, print_only |-> print_only,
     before |-> canvas, calls |-> res.run.calls, out |-> res.run.out,
     invoked |-> res.run.invoked, modid |-> res.modid, raised |-> res.raised]

\* One call of post_module.  ok: whether the server accepts create_module.
PostModule ==
    /\ last = NoCall
    /\ \E mod \in Mods, print_only \in BOOLEAN, ok \in BOOLEAN :
          LET res == post_module(canvas, mod, Semester, print_only, ok)
          IN  /\ canvas' = res.run.canvas
              /\ last' = CallRecord("post_module", mod, print_only, res)
    /\ UNCHANGED <<today, monday, dow, ndays>>

\* One call of update_module.
UpdateModule ==
    /\ last = NoCall
    /\ \E mod \in Mods, print_only \in BOOLEAN :
          LET res == update_module(canvas, mod, Semester, print_only)
          IN  /\ canvas' = res.run.canvas
              /\ last' = CallRecord("update_module", mod, print_only, res)
    /\ UNCHANGED <<today, monday, dow, ndays>>

Next == PostModule \/ UpdateModule

Spec == Init /\ [][Next]_vars

\* ---------------------------------------------------------------- the claims

Posted == last.op = "post_module"
Updated == last.op = "update_module"

\* The descriptions printed, in order.
Descriptions == SelectSeq(last.out, LAMBDA l : l.print = "item")
TextLines == SelectSeq(last.out, LAMBDA l : l.print = "text")

ItemCalls == SelectSeq(last.calls, LAMBDA c : c.api = "create_module_item")

\* The requests that change the course.
Mutating(call) ==
    call.api \in {"create_module", "create_module_item", "create_assignment",
                  "upload_file_to_course", "post_announcement_from_markdown"}

\* Whether item i of the call looks up a file or an assignment the course did
\* not have when the call began.
Missing(i) ==
    LET item == last.items[i]
    IN  \/ /\ item.kind = "ItemFile"
           /\ \A k \in DOMAIN last.before.files : last.before.files[k].name /= item.fname
        \/ /\ item.kind = "ItemAssignment"
           /\ \A k \in DOMAIN last.before.assignments :
                  last.before.assignments[k].name /= item.name

\* The titles of the items that get a module item, in list order.
RECURSIVE TitlesFrom(_)
TitlesFrom(i) ==
    IF i > Len(last.items) THEN <<>>
    ELSE (IF Missing(i) THEN <<>> ELSE <<last.items[i].title>>) \o TitlesFrom(i + 1)

Titles(s) == [i \in DOMAIN s |-> s[i].title]

\* C1: post_module with print_only makes no remote call and changes nothing
\* remotely, and prints one description per item of the week-block, in the
\* order of the list.
C1_PostPrintOnly ==
    (Posted /\ last.print_only) =>
        /\ last.calls = <<>>
        /\ last.invoked = <<>>
        /\ canvas = last.before
        /\ Len(Descriptions) = Len(last.items)
        /\ \A i \in DOMAIN last.items :
               /\ Descriptions[i].str.lines = Lines(last.items[i])
               /\ Descriptions[i].str.indent = last.items[i].indent

C1_Witness ==
    /\ Posted /\ last.print_only
    /\ Len(last.items) = 2
    /\ last.items[1].kind = "ItemURL"
    /\ last.items[2].kind = "ItemWebworkSet"
    /\ Len(last.out) = 3

\* C2: post_module without print_only creates the week's module once, before
\* anything else, then invokes create once per item in list order, each with
\* the module id that creation returned; every module item goes to the end,
\* so the new module lists the items in the order of the configuration.
C2_PostCreatesInOrder ==
    (Posted /\ ~last.print_only) =>
        /\ Len(CreateModuleCalls(last.calls)) = 1
        /\ last.calls[1].api = "create_module"
        /\ Len(last.invoked) = Len(last.items)
        /\ \A i \in DOMAIN last.items :
               /\ last.invoked[i].item = last.items[i]
               /\ last.invoked[i].module = last.modid
        /\ \A k \in DOMAIN ItemCalls :
               /\ ItemCalls[k].module = last.modid
               /\ ItemCalls[k].position = None
        /\ Titles(ItemCalls) = TitlesFrom(1)
        /\ last.modid /= None =>
               LET m == canvas.modules[Len(canvas.modules)]
               IN  /\ m.id = Val(last.modid)
                   /\ Titles(m.items) = TitlesFrom(1)

C2_Witness ==
    /\ Posted /\ ~last.print_only
    /\ last.modid /= None
    /\ Len(last.items) = 2
    /\ last.items[1].kind = "ItemLocalFile"
    /\ last.items[2].kind = "ItemHeader"
    /\ Titles(canvas.modules[Len(canvas.modules)].items) = <<"Slides", "Intro">>

FirstId(s) == s[1].id

\* C3: a File or Assignment item whose file or assignment the course does not
\* have gets no module item and is reported, and create is still invoked for
\* every item of the list; with several matches the first one's id is used.
C3_MissingIsSkipped ==
    ((Posted \/ (Updated /\ last.modid /= None)) /\ ~last.print_only) =>
        /\ Len(last.invoked) = Len(last.items)
        /\ \A i \in DOMAIN last.items : last.invoked[i].item = last.items[i]
        /\ Titles(ItemCalls) = TitlesFrom(1)
        /\ Len(TextLines) = Cardinality({i \in DOMAIN last.items : Missing(i)})
        /\ \A k \in DOMAIN ItemCalls :
               /\ ItemCalls[k].type = "File" /\ ItemCalls[k].title = "Notes"
                     => ItemCalls[k].kwargs.content = FirstId(last.before.files)
               /\ ItemCalls[k].type = "Assignment" /\ ItemCalls[k].title = "HW"
                     => ItemCalls[k].kwargs.content = FirstId(last.before.assignments)

C3_Witness ==
    /\ Updated /\ ~last.print_only /\ last.modid /= None
    /\ Len(last.items) = 2
    /\ last.items[1].kind = "ItemFile"
    /\ last.items[2].kind = "ItemAssignment"
    /\ Missing(1)
    /\ ~Missing(2)
    /\ Len(last.before.assignments) = 2
    /\ Titles(ItemCalls) = <<"HW">>

\* C4: when the week's module cannot be obtained (post_module's creation
\* returns no id, update_module's lookup finds nothing), create is invoked for
\* no item of the week.
C4_NoModuleNoItems ==
    ((Posted \/ Updated) /\ ~last.print_only /\ last.modid = None) =>
        /\ last.invoked = <<>>
        /\ ItemCalls = <<>>

\* C5 as claimed: update_module with print_only changes nothing remotely and
\* prints a description of every item in order, whatever the remote course
\* holds.
C5_UpdatePrintOnlyDescribesAll ==
    (Updated /\ last.print_only) =>
        /\ canvas = last.before
        /\ \A k \in DOMAIN last.calls : ~Mutating(last.calls[k])
        /\ Len(Descriptions) = Len(last.items)
        /\ \A i \in DOMAIN last.items : Descriptions[i].str.lines = Lines(last.items[i])

\* C5, amended: update_module with print_only changes nothing remotely, its
\* one request being the module lookup; when the lookup finds the week's
\* module it prints a description of every item in order, and when it finds
\* none it prints the not-found notice and describes no item.
C5_UpdatePrintOnlyWhenFound ==
    (Updated /\ last.print_only) =>
        /\ canvas = last.before
        /\ Len(last.calls) = 1
        /\ last.calls[1].api = "list_modules"
        /\ last.invoked = <<>>
        /\ IF last.modid /= None
           THEN /\ Len(Descriptions) = Len(last.items)
                /\ \A i \in DOMAIN last.items :
                       Descriptions[i].str.lines = Lines(last.items[i])
                /\ Len(TextLines) = 1
           ELSE /\ Descriptions = <<>>
                /\ Len(TextLines) = 2
                /\ TextLines[2].text = "Could not find the module"

C5_Witness ==
    /\ Updated /\ last.print_only
    /\ last.modid = Some(1)
    /\ Len(last.items) = 2
    /\ last.items[1].kind = "ItemHeader"
    /\ last.items[2].kind = "ItemTool"
    /\ Len(Descriptions) = 2

\* ------------------------------------------------- files.py: uploading files

\* s with x put at position p (counted from 1), at the end if p lies beyond it
InsertAt(s, p, x) ==
    LET k == IF p > Len(s) + 1 THEN Len(s) + 1 ELSE p
    IN  SubSeq(s, 1, k - 1) \o <<x>> \o SubSeq(s, k, Len(s))

\* canvas.create_module_item(classid, module, title, position, type, ...) with
\* a position that may be a number: the item is put at that position of the
\* module, the items from there on moving down; None puts it at the end.
create_module_item_pos(r, module, title, position, type, indent, kwargs) ==
    LET call == [api |-> "create_module_item", module |-> module, title |-> title,
                 position |-> position, type |-> type, indent |-> indent,
                 kwargs |-> kwargs]
        item == [title |-> title, type |-> type, indent |-> indent, kwargs |-> kwargs]
        c    == r.canvas
    IN  Request(
          IF HasModule(c, module)
          THEN [r EXCEPT !.canvas.modules =
                   [i \in DOMAIN c.modules |->
                       IF c.modules[i].id = Val(module)
                       THEN [c.modules[i] EXCEPT !.items =
                                IF position = None THEN Append(@, item)
                                ELSE InsertAt(@, Val(position), item)]
                       ELSE c.modules[i]]]
          ELSE r,
          call)

\* upload_file: the run afterwards, the exception raise_for_status raised (if
\* the server refused the upload or the module item), and the item returned.
\* fails is "none", "upload" or "item": the request the server refuses.
upload_file(r, module, fname, directory, title, position, indent, fails) ==
    LET file_id == r.canvas.next_id    \* resp.json()['id']
        refused == Request(r, [api |-> "upload_file_to_course", local_file |-> fname,
                               remote_path |-> directory, remote_name |-> None])
        r1      == upload_file_to_course(r, fname, directory, None)
        norequest == Request(r1, [api |-> "create_module_item", module |-> module,
                                  title |-> title, position |-> position,
                                  type |-> "File", indent |-> indent,
                                  kwargs |-> [content |-> file_id]])
        r2      == create_module_item_pos(r1, module, title, position, "File", indent,
                                          [content |-> file_id])
    IN  IF fails = "upload"
        THEN [run |-> refused, raised |-> Some("HTTPError"), result |-> None]
        ELSE IF fails = "item"
        THEN [run |-> norequest, raised |-> Some("HTTPError"), result |-> None]
        ELSE [run |-> r2, raised |-> None,
              result |-> Some([title |-> title, position |-> position,
                               content |-> file_id])]

\* The request of the upload of fname that the server refuses, if any.
FailsFor(fail, fname) ==
    IF fail /= None /\ Val(fail).fname = fname THEN Val(fail).step ELSE "none"

\* The loop of upload_files_from_dict from entry i on.  st holds the run, pos,
\* the items dict (as the sequence of its entries) and the exception raised.
RECURSIVE UploadLoopCountingSkipped(_, _, _, _, _, _)
UploadLoopCountingSkipped(fdict, i, st, module, local, fail) ==
    IF i > Len(fdict) \/ st.raised /= None THEN st
    ELSE LET e == fdict[i]
             up == upload_file(st.run, module, e.fname, e.props[1], e.props[2],
                               st.pos, 1, FailsFor(fail, e.fname))
             bump == IF st.pos /= None THEN Some(Val(st.pos) + 1) ELSE st.pos
         IN  UploadLoopCountingSkipped(fdict, i + 1,
                IF e.fname \in local
                THEN [run |-> up.run, raised |-> up.raised, pos |-> bump,
                      items |-> IF up.raised = None
                                THEN Append(st.items, [fname |-> e.fname,
                                                       value |-> <<Val(up.result)>>])
                                ELSE st.items]
                ELSE [st EXCEPT !.run = PrintLine(@, TextLine(e.fname \o " not found")),
                                !.pos = bump],
                module, local, fail)

RECURSIVE UploadLoop(_, _, _, _, _, _)
UploadLoop(fdict, i, st, module, local, fail) ==
    IF i > Len(fdict) \/ st.raised /= None THEN st
    ELSE LET e == fdict[i]
             up == upload_file(st.run, module, e.fname, e.props[1], e.props[2],
                               st.pos, 1, FailsFor(fail, e.fname))
         IN  UploadLoop(fdict, i + 1,
                IF e.fname \in local    \* os.path.isfile(fname)
                THEN [run |-> up.run, raised |-> up.raised,
                      pos |-> IF st.pos /= None /\ up.raised = None
                              THEN Some(Val(st.pos) + 1) ELSE st.pos,
                      items |-> IF up.raised = None
                                THEN Append(st.items, [fname |-> e.fname,
                                                       value |-> <<Val(up.result)>>])
                                ELSE st.items]
                ELSE [st EXCEPT !.run = PrintLine(@, TextLine(e.fname \o " not found"))],
                module, local, fail)

\* upload_files_from_dict(classid, module, pos, fdict).  fdict is the dict as
\* the sequence of its entries [fname, props], local the files the local disk
\* has; the result is the dict returned, None when an exception ended the call.
upload_files_from_dict(c, module, pos, fdict, local, fail) ==
    LET st == UploadLoop(fdict, 1,
                         [run |-> Run0(c), raised |-> None, pos |-> pos, items |-> <<>>],
                         module, local, fail)
    IN  [run |-> st.run, raised |-> st.raised,
         result |-> IF st.raised = None THEN Some(st.items) ELSE None]

\* The file names a dict may hold, and a dict entry for each.
FileNames == {"file" \o ToString(i) : i \in 1..MaxFiles}

Entry(fname) == [fname |-> fname, props |-> <<"dir", "Title of " \o fname>>]

\* The dicts: sequences of entries with no file name twice.
FileDicts ==
    {[i \in DOMAIN fs |-> Entry(fs[i])] :
        fs \in {g \in SeqsUpTo(FileNames, MaxFiles) :
                   \A i, j \in DOMAIN g : i /= j => g[i] /= g[j]}}

\* A course with one module, which has two items.
CourseWithModule ==
    [EmptyCourse EXCEPT
        !.modules = <<[id |-> 1, name |-> <<"First", "class">>,
                       items |-> <<[title |-> "Old 1", type |-> "SubHeader",
                                    indent |-> 0, kwargs |-> NoKwargs],
                                   [title |-> "Old 2", type |-> "SubHeader",
                                    indent |-> 0, kwargs |-> NoKwargs]>>]>>,
        !.next_id = 100]

\* The dict, the position, the local disk and the refusal are drawn at the start.
InitFiles ==
    /\ IdleDate
    /\ canvas = CourseWithModule
    /\ \E fdict \in FileDicts, pos \in {None} \cup {Some(p) : p \in 1..MaxFiles},
          local \in SUBSET FileNames,
          fail \in {None} \cup {Some([fname |-> f, step |-> s]) :
                                   f \in FileNames, s \in {"upload", "item"}} :
          last = [op |-> "files_input", fdict |-> fdict, pos |-> pos,
                  local |-> local, fail |-> fail]

CallUploadFilesFromDict ==
    /\ last.op = "files_input"
    /\ LET res == upload_files_from_dict(canvas, Some(1), last.pos, last.fdict,
                                         last.local, last.fail)
       IN  /\ canvas' = res.run.canvas
           /\ last' = [op |-> "upload_files_from_dict", fdict |-> last.fdict,
                       pos |-> last.pos, local |-> last.local, fail |-> last.fail,
                       before |-> canvas, calls |-> res.run.calls,
                       out |-> res.run.out, raised |-> res.raised,
                       result |-> res.result]
    /\ UNCHANGED <<today, monday, dow, ndays>>

NextFiles == CallUploadFilesFromDict

SpecFiles == InitFiles /\ [][NextFiles]_vars

UploadCalls == SelectSeq(last.calls, LAMBDA c : c.api = "upload_file_to_course")

\* The entries of the dict whose file the local disk has / lacks, in dict order.
Existing == SelectSeq(last.fdict, LAMBDA e : e.fname \in last.local)
Lacking == SelectSeq(last.fdict, LAMBDA e : e.fname \notin last.local)

\* C12: upload_files_from_dict reports and skips the entries whose local file
\* does not exist and goes on; the files that exist are uploaded in dict order
\* and their module items are created at pos, pos+1, ... with no gap for the
\* skipped ones (at None when pos is None); the dict returned has an entry for
\* exactly the files uploaded.
C12_SkipsMissingNoGap ==
    last.op = "upload_files_from_dict" =>
        /\ Len(ItemCalls) <= Len(UploadCalls)
        /\ Len(UploadCalls) <= Len(Existing)
        /\ \A k \in DOMAIN UploadCalls : UploadCalls[k].local_file = Existing[k].fname
        /\ \A k \in DOMAIN ItemCalls :
               /\ ItemCalls[k].title = Existing[k].props[2]
               /\ ItemCalls[k].position =
                      IF last.pos = None THEN None ELSE Some(Val(last.pos) + k - 1)
        /\ \A k \in DOMAIN last.out : last.out[k].text = Lacking[k].fname \o " not found"
        /\ last.raised = None =>
               /\ Len(UploadCalls) = Len(Existing)
               /\ Len(ItemCalls) = Len(Existing)
               /\ Len(last.out) = Len(Lacking)
               /\ [k \in DOMAIN Val(last.result) |-> Val(last.result)[k].fname]
                      = [k \in DOMAIN Existing |-> Existing[k].fname]
               /\ LET items == canvas.modules[1].items
                  IN  (last.pos /= None
                         /\ Val(last.pos) <= Len(last.before.modules[1].items) + 1) =>
                          \A k \in DOMAIN Existing :
                              items[Val(last.pos) + k - 1].title = Existing[k].props[2]

C12_Witness ==
    /\ last.op = "upload_files_from_dict"
    /\ last.raised = None
    /\ Len(last.fdict) = 3
    /\ last.fdict[2].fname \notin last.local
    /\ Len(Existing) = 2
    /\ last.pos = Some(2)
    /\ [k \in DOMAIN ItemCalls |-> ItemCalls[k].position] = <<Some(2), Some(3)>>
    /\ Len(last.out) = 1

\* ------------------------------------------- several calls on one course

\* The semesters: the date SemesterDates is built from, and the Monday of its
\* week as the calendar has it.  Their first weeks begin on 1, 8, 15 and 22
\* December 2025; 16, 23 and 30 December 2024 and 6 January 2025; 26 February
\* and 4, 11 and 18 March 2024.
SemesterChoices ==
    {[input |-> Date(2025, 12, 3),  monday |-> Date(2025, 12, 1)],
     [input |-> Date(2024, 12, 18), monday |-> Date(2024, 12, 16)],
     [input |-> Date(2024, 2, 29),  monday |-> Date(2024, 2, 26)]}

\* The week-block posted and updated in a row of calls.
RowItems == <<ItemHeader("Intro", 0), ItemURL("Link", "https://example.org", 1, FALSE)>>

\* A fresh course; `today` is the date the semester is built from.  last also
\* keeps, per week, the ids of the modules post_module has created for it.
InitRow ==
    /\ dow = 0
    /\ ndays = 0
    /\ \E sem \in SemesterChoices : today = sem.input /\ monday = sem.monday
    /\ canvas = EmptyCourse
    /\ last = [op |-> "none", ncalls |-> 0, created |-> [w \in 1..MaxWeek |-> <<>>]]

RowRecord(op, mod, print_only, res, created) ==
    [op |-> op, week |-> mod.week, items |-> mod.items, print_only |-> print_only,
     before |-> canvas, calls |-> res.run.calls, out |-> res.run.out,
     invoked |-> res.run.invoked, modid |-> res.modid, raised |-> res.raised,
     ncalls |-> last.ncalls + 1, created |-> created]

\* post_module for some week.  ok: whether the server accepts create_module.
PostInRow ==
    /\ last.ncalls < MaxCalls
    /\ \E week \in 1..MaxWeek, print_only \in BOOLEAN, ok \in BOOLEAN :
          LET mod == [week |-> week, items |-> RowItems]
              res == post_module(canvas, mod, SemesterDates_init(today), print_only, ok)
          IN  /\ canvas' = res.run.canvas
              /\ last' = RowRecord("post_module", mod, print_only, res,
                            IF res.modid /= None
                            THEN [last.created EXCEPT ![week] = Append(@, Val(res.modid))]
                            ELSE last.created)
    /\ UNCHANGED <<today, monday, dow, ndays>>

\* update_module for some week.
UpdateInRow ==
    /\ last.ncalls < MaxCalls
    /\ \E week \in 1..MaxWeek, print_only \in BOOLEAN :
          LET mod == [week |-> week, items |-> RowItems]
              res == update_module(canvas, mod, SemesterDates_init(today), print_only)
          IN  /\ canvas' = res.run.canvas
              /\ last' = RowRecord("update_module", mod, print_only, res, last.created)
    /\ UNCHANGED <<today, monday, dow, ndays>>

NextRow == PostInRow \/ UpdateInRow

SpecRow == InitRow /\ [][NextRow]_vars

\* The name of week w as the calendar has it: "Week of", the month and the
\* day of the Monday 7*(w-1) days after the semester's Monday.
CalWeekName(w) ==
    LET d == CalAddDays(monday, 7 * (w - 1))
    IN  <<"Week", "of", month_name[d.month], ToString(d.day)>>

ModulesNamed(c, name) == SelectSeq(c.modules, LAMBDA m : m.name = name)
ListCalls == SelectSeq(last.calls, LAMBDA c : c.api = "list_modules")

\* C11: every post_module call without print_only makes exactly one
\* create_module request and no lookup, so a week posted (and accepted) k
\* times has k remote modules of the same name; update_module makes no
\* create_module request, only the lookup, and adds no module.
C11_CreateIsUnconditional ==
    /\ (Posted /\ ~last.print_only) =>
           /\ Len(CreateModuleCalls(last.calls)) = 1
           /\ last.calls[1].api = "create_module"
           /\ last.calls[1].name = CalWeekName(last.week)
           /\ ListCalls = <<>>
    /\ Updated =>
           /\ CreateModuleCalls(last.calls) = <<>>
           /\ Len(ListCalls) = 1
           /\ Len(canvas.modules) = Len(last.before.modules)
    /\ last.ncalls > 0 =>
           \A w \in 1..MaxWeek :
               Len(ModulesNamed(canvas, CalWeekName(w))) = Len(last.created[w])

C11_Witness ==
    /\ Posted /\ ~last.print_only
    /\ Len(last.created[last.week]) >= 2
    /\ Len(last.before.modules) >= 1
    /\ Len(ModulesNamed(canvas, CalWeekName(last.week))) = Len(last.created[last.week])

\* The modules the lookup of an update_module call lists.
Matches == SelectSeq(last.before.modules, LAMBDA m : Contains(m.name, CalWeekName(last.week)))

ModuleWithId(c, id) == c.modules[CHOOSE i \in DOMAIN c.modules : c.modules[i].id = id]

\* The weeks posted so far are distinct, and the updated week is one of them.
UpdatedPostedWeek ==
    /\ Updated /\ ~last.print_only
    /\ \A w \in 1..MaxWeek : Len(last.created[w]) <= 1
    /\ last.created[last.week] /= <<>>

\* C13 as claimed: post_module creates a week's module under the name
\* update_module searches for, so after posts of distinct weeks update_module
\* for a posted week adds its items to a module carrying that week's name.
C13_UpdateReachesWeeksModule ==
    /\ (Posted /\ ~last.print_only) => last.calls[1].name = CalWeekName(last.week)
    /\ (Updated /\ ~last.print_only) => last.calls[1].search = CalWeekName(last.week)
    /\ UpdatedPostedWeek =>
           /\ last.modid /= None
           /\ ModuleWithId(canvas, Val(last.modid)).name = CalWeekName(last.week)
           /\ Titles(ModuleWithId(canvas, Val(last.modid)).items)
                  = Titles(ModuleWithId(last.before, Val(last.modid)).items)
                       \o Titles(last.items)

\* C13, amended: post_module creates a week's module under the name
\* update_module searches for; update_module adds its items to the first
\* module the search lists (to none when it lists none); after posts of
\* distinct weeks, for a posted week, that module carries the week's name and
\* is the module post_module created provided the search lists only modules
\* of exactly that name.
C13_UpdateReachesFirstMatch ==
    /\ (Posted /\ ~last.print_only) => last.calls[1].name = CalWeekName(last.week)
    /\ (Updated /\ ~last.print_only) =>
           /\ last.calls[1].search = CalWeekName(last.week)
           /\ IF Matches = <<>>
              THEN last.modid = None /\ canvas = last.before
              ELSE /\ last.modid = Some(Matches[1].id)
                   /\ \A k \in DOMAIN ItemCalls : ItemCalls[k].module = last.modid
                   /\ Titles(ModuleWithId(canvas, Val(last.modid)).items)
                          = Titles(ModuleWithId(last.before, Val(last.modid)).items)
                               \o Titles(last.items)
    /\ (UpdatedPostedWeek
          /\ \A k \in DOMAIN Matches : Matches[k].name = CalWeekName(last.week)) =>
           /\ last.modid = Some(last.created[last.week][1])
           /\ ModuleWithId(canvas, Val(last.modid)).name = CalWeekName(last.week)

C13_Witness ==
    /\ UpdatedPostedWeek
    /\ last.week = 2
    /\ last.created[1] /= <<>>
    /\ Len(last.before.modules) = 2
    /\ last.modid = Some(last.created[2][1])
    /\ Titles(ModuleWithId(canvas, Val(last.modid)).items)
           = <<"Intro", "Link", "Intro", "Link">>

====
